---- MODULE Spec2Model ----
(***************************************************************************)
(* Authentication state, credential cipher and handler flows of the        *)
(* Telegram bot (mockDb.js, cryptoUtils.js, utils/auth.js,                 *)
(* handlers/commands.js, handlers/callbacks.js, routes/auth.js, app.js).   *)
(*                                                                         *)
(* A string is modelled by the parts that Buffer.from(s,'base64')          *)
(* .toString().split(':') yields: a sequence of parts, each part a record  *)
(* [len, v] (its length in characters and its content).  The empty         *)
(* sequence stands for every falsy credential value (undefined, null, ''). *)
(***************************************************************************)
EXTENDS Integers, Sequences, FiniteSets, TLC

\* ------------------------------------------------------------------ bounds
MaxText == 1
MaxIV == 2
MaxClock == 1

\* --------------------------------------------------------- program constants
HexLen == 32
KeyCode == 9

Users == {"u1"}
NoUser == "none"
PrivyIds == {"p1", "p2"}
NoPrivyId == "none"

Absent == <<>>
Part(l, x) == [len |-> l, v |-> x]

\* raw bearer credentials: one part, no ':' after base64 decoding
RawToken(t) == <<Part(8, t)>>
RawTokens == {RawToken(t) : t \in 1..MaxText}
\* three parts, but the first one is not 32 characters long
MalformedToken == <<Part(8, 1), Part(HexLen, 0), Part(2, 1)>>
\* a truthy JSON value that is not a string (number, object)
NonStringToken == <<Part(0 - 1, 0)>>

Plaintexts == RawTokens \cup {MalformedToken}
\* one character: U+FFFD, and a UTF-16 surrogate without its partner
ReplacementChar == <<Part(1, MaxText + 1)>>
LoneSurrogate == <<Part(1, MaxText + 2)>>
\* JavaScript strings, the empty one among them
Strings == Plaintexts \cup {Absent, ReplacementChar, LoneSurrogate}
NCodes == MaxText + 2
CtMod == NCodes + 1
TagMod == (2 * NCodes) + 3

\* the 'utf8' input encoding of cipher.update: an unpaired surrogate is
\* written as the bytes of U+FFFD
utf8(s) == IF s = LoneSurrogate THEN ReplacementChar ELSE s

\* utf8 bytes of a plaintext, as a number in 0..NCodes
Code(s) ==
  LET bytes == utf8(s)
  IN IF bytes = Absent THEN 0 ELSE IF Len(bytes) = 1 THEN bytes[1].v ELSE NCodes
\* the 'utf8' output encoding of decipher.update
Decode(c) ==
  IF c = 0 THEN Absent ELSE CHOOSE s \in Plaintexts \cup {ReplacementChar} : Code(s) = c

\* AES-256-GCM under the key derived from ENCRYPTION_KEY
CtOf(code, iv) == (code + iv) % CtMod
PlainOf(ct, iv) == ((ct + (CtMod * MaxIV) + CtMod) - iv) % CtMod
TagOf(iv, ct) == (KeyCode + (3 * iv) + (5 * ct)) % TagMod

IsString(s) == \A i \in 1..Len(s) : s[i].len >= 0

encrypt(text, iv) ==
  IF ~IsString(text)
  THEN [ok |-> FALSE, token |-> Absent]
  ELSE LET ct == CtOf(Code(text), iv)
           hexLen == IF text = Absent THEN 0 ELSE 2 * text[1].len
       IN [ok |-> TRUE,
           token |-> <<Part(HexLen, iv), Part(HexLen, TagOf(iv, ct)), Part(hexLen, ct)>>]

\* the nonce of the token is not used: the key stream is that of nonce 1
decryptFixedNonce(encryptedData) ==
  IF Len(encryptedData) # 3
  THEN [ok |-> FALSE, text |-> Absent]
  ELSE LET iv == encryptedData[1].v
           authTag == encryptedData[2].v
           ct == encryptedData[3].v
       IN IF encryptedData[1].len = HexLen /\ encryptedData[2].len = HexLen
             /\ authTag = TagOf(iv, ct)
          THEN [ok |-> TRUE, text |-> Decode(PlainOf(ct, 1))]
          ELSE [ok |-> FALSE, text |-> Absent]

decrypt(encryptedData) ==
  IF Len(encryptedData) # 3
  THEN [ok |-> FALSE, text |-> Absent]
  ELSE LET iv == encryptedData[1].v
           authTag == encryptedData[2].v
           ct == encryptedData[3].v
       IN IF encryptedData[1].len = HexLen /\ encryptedData[2].len = HexLen
             /\ authTag = TagOf(iv, ct)
          THEN [ok |-> TRUE, text |-> Decode(PlainOf(ct, iv))]
          ELSE [ok |-> FALSE, text |-> Absent]

encryptPrivyAccessToken(accessToken, iv) ==
  IF accessToken = Absent
  THEN [ok |-> FALSE, token |-> Absent]
  ELSE encrypt(accessToken, iv)

decryptPrivyAccessToken(encryptedToken) ==
  IF encryptedToken = Absent
  THEN [ok |-> FALSE, text |-> Absent]
  ELSE decrypt(encryptedToken)

isValidEncryptedToken(token) ==
  IF token = Absent \/ ~IsString(token)
  THEN FALSE
  ELSE /\ Len(token) = 3
       /\ token[1].len = HexLen
       /\ token[2].len = HexLen
       /\ token[3].len > 0

\* tokens in the encrypted format
GenuineTokens == {encrypt(s, iv).token : s \in RawTokens, iv \in 1..MaxIV}
\* right layout, but the authentication tag does not verify
ForgedToken == <<Part(HexLen, 1), Part(HexLen, (TagOf(1, 1) + 1) % TagMod), Part(16, 1)>>

SubmittedTokens ==
  {Absent, NonStringToken, MalformedToken, ForgedToken} \cup RawTokens \cup GenuineTokens


\* ------------------------------------------------------------------- state
VARIABLES
  db,          \* wallet-mappings.json: telegram user id -> record
  userStates,  \* utils/userState.js: the in-memory Map of agent-creation states
  tasks,       \* handler runs suspended at an await
  sent,        \* the message handed to the transport by the last step
  req,         \* the credential the last step got over HTTP, and the one stored then
  res,         \* the HTTP response written by the last step
  now,         \* wall clock read by new Date() and Date.now(), in seconds
  readable,    \* whether wallet-mappings.json can be read and parsed
  webhookInfo, \* the webhook registration held by the transport provider
  hookTask,    \* the run of the /auto-reset-webhook handler
  botCall,     \* the setWebHook call issued by the last step
  healthTask,  \* the run of the GET /health handler
  monitorTask, \* the run of monitor-webhook.js
  setupTask,   \* the run of the listen callback and setupWebhookWithRetry
  shutdown,    \* whether SIGTERM has been received
  handed,      \* the bot.processUpdate calls made by the last step
  transportUp, \* whether a message handed to the transport is delivered
  escaped,     \* whether a rejection or exception was left unhandled
  cipher,      \* a caller of encrypt and decrypt: text in, token, text out
  setHookTask  \* the run of the /set-webhook handler

\* the runs and switches outside the bot's update handlers
ops == <<healthTask, monitorTask, setupTask, shutdown, handed, cipher, setHookTask>>

\* what /auth/callback never touches
core == <<readable, webhookInfo, hookTask, botCall, ops, transportUp>>

\* what the bot's update handlers never touch
infra == <<core, escaped>>

vars == <<db, userStates, tasks, sent, req, res, now, infra>>

NoMsg == [to |-> NoUser, kind |-> "none"]
Msg(u, k) == [to |-> u, kind |-> k]
NoReq == [made |-> FALSE, user |-> NoUser, token |-> Absent, before |-> Absent]
NoRes == [status |-> 0, body |-> "none"]
Res(st, b) == [status |-> st, body |-> b]

NoState == "none"
AwaitingPrompt == "awaiting_agent_prompt"

IdleTask ==
  [kind |-> "idle", pc |-> "idle",
   isAuthenticated |-> FALSE, hasValidToken |-> FALSE, accessToken |-> Absent]
Task(k, p, authCheck, tok) ==
  [kind |-> k, pc |-> p,
   isAuthenticated |-> authCheck.isAuthenticated,
   hasValidToken |-> authCheck.hasValidToken, accessToken |-> tok]

\* ------------------------------------------------------------ mockDb.js
\* the stale read is the content of the file although it cannot be read
getAllUserDataStale(file) == file

\* a read or parse error is caught and the empty object returned
getAllUserData(file) == IF readable THEN file ELSE <<>>

\* the file is rewritten with the updated record alone
updateUserAuthStatusOwnKeyOnly(file, userId, isAuthenticated, privyUserId, encryptedAccessToken, date) ==
  LET userData == getAllUserData(file)
      old == IF userId \in DOMAIN userData
             THEN userData[userId]
             ELSE [isAuthenticated |-> FALSE, lastLogin |-> 0 - 1,
                   privyUserId |-> NoPrivyId, privyAccessToken |-> Absent]
      new == [isAuthenticated |-> isAuthenticated,
              lastLogin |-> date,
              privyUserId |-> IF privyUserId # NoPrivyId THEN privyUserId ELSE old.privyUserId,
              privyAccessToken |-> IF encryptedAccessToken # Absent
                                   THEN encryptedAccessToken
                                   ELSE old.privyAccessToken]
  IN [k \in {userId} |-> new]

updateUserAuthStatus(file, userId, isAuthenticated, privyUserId, encryptedAccessToken, date) ==
  LET userData == getAllUserData(file)
      old == IF userId \in DOMAIN userData
             THEN userData[userId]
             ELSE [isAuthenticated |-> FALSE, lastLogin |-> 0 - 1,
                   privyUserId |-> NoPrivyId, privyAccessToken |-> Absent]
      new == [isAuthenticated |-> isAuthenticated,
              lastLogin |-> date,
              privyUserId |-> IF privyUserId # NoPrivyId THEN privyUserId ELSE old.privyUserId,
              privyAccessToken |-> IF encryptedAccessToken # Absent
                                   THEN encryptedAccessToken
                                   ELSE old.privyAccessToken]
  IN [k \in DOMAIN userData \cup {userId} |-> IF k = userId THEN new ELSE userData[k]]

getUserAuthStatus(file, userId) ==
  LET userData == getAllUserData(file)
  IN IF userId \in DOMAIN userData
     THEN [found |-> TRUE, data |-> userData[userId]]
     ELSE [found |-> FALSE,
           data |-> [isAuthenticated |-> FALSE, lastLogin |-> 0 - 1,
                     privyUserId |-> NoPrivyId, privyAccessToken |-> Absent]]

\* a token that fails decryption is handed on as it is stored
getUserAccessTokenUnchecked(file, userId) ==
  LET userData == getUserAuthStatus(file, userId)
  IN IF ~userData.found THEN Absent ELSE userData.data.privyAccessToken

getUserAccessToken(file, userId) ==
  LET userData == getUserAuthStatus(file, userId)
  IN IF ~userData.found \/ userData.data.privyAccessToken = Absent
     THEN Absent
     ELSE LET d == decryptPrivyAccessToken(userData.data.privyAccessToken)
          IN IF d.ok THEN d.text ELSE Absent

clearUserAuthDataKeepFlag(file, userId) ==
  LET userData == getAllUserData(file)
  IN IF userId \in DOMAIN userData
     THEN [userData EXCEPT ![userId].privyAccessToken = Absent]
     ELSE userData

\* the record is deleted instead of cleared
clearUserAuthDataDeleteRecord(file, userId) ==
  LET userData == getAllUserData(file)
  IN [k \in DOMAIN userData \ {userId} |-> userData[k]]

\* the whole record is reset, not only the flag and the credential
clearUserAuthDataResetRecord(file, userId) ==
  LET userData == getAllUserData(file)
  IN IF userId \in DOMAIN userData
     THEN [userData EXCEPT ![userId] =
             [isAuthenticated |-> FALSE, lastLogin |-> 0 - 1,
              privyUserId |-> NoPrivyId, privyAccessToken |-> Absent]]
     ELSE userData

clearUserAuthData(file, userId) ==
  LET userData == getAllUserData(file)
  IN IF userId \in DOMAIN userData
     THEN [userData EXCEPT ![userId].isAuthenticated = FALSE,
                           ![userId].privyAccessToken = Absent]
     ELSE userData

\* ---------------------------------------------------------- utils/auth.js
SafeDefault == [isAuthenticated |-> FALSE, hasValidToken |-> FALSE, found |-> FALSE,
                userData |-> [isAuthenticated |-> FALSE, lastLogin |-> 0 - 1,
                              privyUserId |-> NoPrivyId, privyAccessToken |-> Absent]]

checkUserAuthenticationTokenOnly(file, userId) ==
  LET userData == getUserAuthStatus(file, userId)
  IN IF ~userData.found
     THEN SafeDefault
     ELSE [isAuthenticated |-> userData.data.isAuthenticated,
           hasValidToken |-> getUserAccessToken(file, userId) # Absent,
           found |-> TRUE,
           userData |-> userData.data]

checkUserAuthentication(file, userId) ==
  LET userData == getUserAuthStatus(file, userId)
  IN IF ~userData.found \/ ~userData.data.isAuthenticated
     THEN SafeDefault
     ELSE [isAuthenticated |-> userData.data.isAuthenticated,
           hasValidToken |-> getUserAccessToken(file, userId) # Absent,
           found |-> TRUE,
           userData |-> userData.data]

handleInvalidToken(file, userId, shouldClear) ==
  IF shouldClear THEN clearUserAuthData(file, userId) ELSE file

\* ------------------------------------------------------- utils/messages.js
\* outcome of a remote call: "ok", an HTTP status of error.response, or
\* "noresp" for an error without a response
Outcomes == {"ok", "401", "403", "422", "500", "noresp"}
Failures == Outcomes \ {"ok"}

createErrorMessageClearOn403(error) ==
  IF error = "401" \/ error = "403"
  THEN [message |-> "reauth_401", shouldClearAuth |-> TRUE]
  ELSE [message |-> "api_error", shouldClearAuth |-> FALSE]

createErrorMessage(error) ==
  IF error # "noresp"
  THEN IF error = "401"
       THEN [message |-> "reauth_401", shouldClearAuth |-> TRUE]
       ELSE IF error = "403"
            THEN [message |-> "forbidden_403", shouldClearAuth |-> FALSE]
            ELSE [message |-> "api_error", shouldClearAuth |-> FALSE]
  ELSE [message |-> "error_message", shouldClearAuth |-> FALSE]

createWelcomeMessage(authCheck) ==
  IF authCheck.isAuthenticated /\ authCheck.hasValidToken
  THEN "welcome_authenticated"
  ELSE "welcome_auth_required"


\* ------------------------------------------------------------------ Init
\* ------------------------------------------------ webhook registration
Urls == {"https://a/webhook", "https://b/webhook"}
NoUrl == ""
NoWebhook == [url |-> NoUrl, last_error_date |-> 0, pending_update_count |-> 0]
NoCall == [made |-> FALSE, url |-> NoUrl, drop_pending_updates |-> FALSE]
IdleHook == [pc |-> "idle", expectedUrl |-> NoUrl, needsReset |-> FALSE, reason |-> ""]
IdleHealth == [pc |-> "idle", read |-> "none"]
IdleMonitor == [pc |-> "idle", expectedUrl |-> NoUrl, status |-> "none"]
SetupOff ==
  [pc |-> "off", expectedUrl |-> NoUrl, attempt |-> 0, call |-> "none", wait |-> 0,
   failed |-> 0, result |-> "none", deleted |-> "none"]
NoUpdate == [body |-> "none", calls |-> 0, threw |-> FALSE]
NoCipher == [pc |-> "idle", text |-> Absent, data |-> Absent, out |-> Absent, ok |-> TRUE]
IdleSetHook == [pc |-> "idle", webhookUrl |-> NoUrl]

\* nothing outside the store is running when the process starts
OpsInit ==
  /\ healthTask = IdleHealth
  /\ monitorTask = IdleMonitor
  /\ setupTask = SetupOff
  /\ shutdown = FALSE
  /\ handed = NoUpdate
  /\ transportUp = TRUE
  /\ escaped = FALSE
  /\ cipher = NoCipher
  /\ setHookTask = IdleSetHook

Init ==
  /\ db = <<>>
  /\ userStates = [u \in Users |-> NoState]
  /\ tasks = [u \in Users |-> IdleTask]
  /\ sent = NoMsg
  /\ req = NoReq
  /\ res = NoRes
  /\ now = 0
  /\ readable = TRUE
  /\ webhookInfo = NoWebhook
  /\ hookTask = IdleHook
  /\ botCall = NoCall
  /\ OpsInit

\* a step that serves no HTTP request
NoHttp == req' = NoReq /\ res' = NoRes

Passes(authCheck) == authCheck.isAuthenticated /\ authCheck.hasValidToken
Ghost(authCheck) == authCheck.isAuthenticated /\ ~authCheck.hasValidToken

\* a handler that runs to completion without suspending
Finish(file, msg) ==
  /\ db' = file
  /\ sent' = msg
  /\ NoHttp
  /\ UNCHANGED <<userStates, tasks, now, infra>>

\* a handler of user u that suspends at, or resumes from, an await
Suspend(u, file, task, msg) ==
  /\ db' = file
  /\ tasks' = [tasks EXCEPT ![u] = task]
  /\ sent' = msg
  /\ NoHttp
  /\ UNCHANGED <<userStates, now, infra>>

\* ------------------------------------------------- handlers/commands.js
handleStartCommand(u) ==
  LET authCheck == checkUserAuthentication(db, u)
  IN Finish(db, Msg(u, createWelcomeMessage(authCheck)))

handleLoginCommand(u) ==
  LET authCheck == checkUserAuthentication(db, u)
  IN IF Passes(authCheck)
     THEN Finish(db, Msg(u, "already_logged_in"))
     ELSE IF Ghost(authCheck)
          THEN Finish(clearUserAuthData(db, u), Msg(u, "login_prompt"))
          ELSE Finish(db, Msg(u, "login_prompt"))

handleLogoutCommand(u) ==
  LET authCheck == checkUserAuthentication(db, u)
  IN IF ~authCheck.isAuthenticated
     THEN Finish(db, Msg(u, "already_logged_out"))
     ELSE Finish(clearUserAuthData(db, u), Msg(u, "logout_successful"))

handleStatusCommand(u) ==
  LET authCheck == checkUserAuthentication(db, u)
  IN IF ~authCheck.isAuthenticated \/ ~authCheck.hasValidToken
     THEN IF ~authCheck.isAuthenticated
          THEN Finish(db, Msg(u, "status_not_authenticated"))
          ELSE Finish(clearUserAuthData(db, u), Msg(u, "status_token_expired"))
     ELSE /\ tasks[u] = IdleTask
          /\ Suspend(u, db,
                     Task("status", "getUserAccount", authCheck, getUserAccessToken(db, u)),
                     NoMsg)

\* getUserAccount settles: the rest of the try block, or the catch block
handleStatusCommandSettled(u, outcome) ==
  /\ tasks[u].kind = "status"
  /\ tasks[u].pc = "getUserAccount"
  /\ IF outcome = "ok"
        THEN Suspend(u, db, IdleTask, Msg(u, "account_status"))
        ELSE LET e == createErrorMessage(outcome)
             IN Suspend(u, handleInvalidToken(db, u, e.shouldClearAuth), IdleTask,
                        Msg(u, e.message))

handleAccessTokenCommand(u) ==
  LET authCheck == checkUserAuthentication(db, u)
  IN IF ~authCheck.isAuthenticated \/ ~authCheck.hasValidToken
     THEN IF ~authCheck.isAuthenticated
          THEN Finish(db, Msg(u, "not_authenticated"))
          ELSE Finish(clearUserAuthData(db, u), Msg(u, "no_valid_token"))
     ELSE Finish(db, Msg(u, "access_token"))

handleCreateAgentCommand(u) ==
  LET authCheck == checkUserAuthentication(db, u)
  IN IF ~authCheck.isAuthenticated \/ ~authCheck.hasValidToken
     THEN IF ~authCheck.isAuthenticated
          THEN Finish(db, Msg(u, "create_not_authenticated"))
          ELSE Finish(clearUserAuthData(db, u), Msg(u, "create_token_expired"))
     ELSE /\ db' = db
          /\ userStates' = [userStates EXCEPT ![u] = AwaitingPrompt]
          /\ sent' = Msg(u, "agent_prompt_request")
          /\ NoHttp
          /\ UNCHANGED <<tasks, now, infra>>

handleMyAgentsCommand(u) ==
  LET authCheck == checkUserAuthentication(db, u)
  IN IF ~authCheck.isAuthenticated
     THEN Finish(db, Msg(u, "agents_auth_required"))
     ELSE /\ tasks[u] = IdleTask
          /\ Suspend(u, db, Task("my_agents", "loading", authCheck, Absent),
                     Msg(u, "loading_agents"))

\* the awaited loading message settles; on success getUserAgents is called
handleMyAgentsCommandLoaded(u, sendOk) ==
  /\ tasks[u].kind = "my_agents"
  /\ tasks[u].pc = "loading"
  /\ IF sendOk
        THEN Suspend(u, db,
                     [tasks[u] EXCEPT !.pc = "getUserAgents",
                                      !.accessToken = getUserAccessToken(db, u)],
                     NoMsg)
        ELSE Suspend(u, db, IdleTask, Msg(u, "agents_error"))

handleMyAgentsCommandSettled(u, outcome) ==
  /\ tasks[u].kind = "my_agents"
  /\ tasks[u].pc = "getUserAgents"
  /\ IF outcome = "ok"
        THEN Suspend(u, db, IdleTask, Msg(u, "agents_list"))
        ELSE Suspend(u, db, IdleTask, Msg(u, "agents_error"))

AgentIdArgs == {"missing", "invalid", "valid"}

handleGetAgentCommand(u, arg) ==
  LET authCheck == checkUserAuthentication(db, u)
  IN IF ~authCheck.isAuthenticated \/ ~authCheck.hasValidToken
     THEN IF ~authCheck.isAuthenticated
          THEN Finish(db, Msg(u, "get_agent_not_authenticated"))
          ELSE Finish(clearUserAuthData(db, u), Msg(u, "get_agent_token_expired"))
     ELSE IF arg = "missing"
          THEN Finish(db, Msg(u, "get_agent_usage"))
          ELSE IF arg = "invalid"
               THEN Finish(db, Msg(u, "invalid_agent_id"))
               ELSE /\ tasks[u] = IdleTask
                    /\ Suspend(u, db, Task("get_agent", "loading", authCheck, Absent),
                               Msg(u, "loading_agent"))

\* api/nation.js exports no getAgent: the call site throws a TypeError, which
\* the catch block reports like a failed loading message
handleGetAgentCommandLoaded(u, sendOk) ==
  /\ tasks[u].kind = "get_agent"
  /\ tasks[u].pc = "loading"
  /\ sendOk \in BOOLEAN
  /\ Suspend(u, db, IdleTask, Msg(u, "agent_error"))


\* ------------------------------------------------ handlers/callbacks.js
\* every callback first awaits answerCallbackQuery; the actions below are
\* the synchronous remainder of the handler after that await
handleGetAccessToken(u) ==
  LET authCheck == checkUserAuthentication(db, u)
  IN IF ~authCheck.isAuthenticated \/ ~authCheck.hasValidToken
     THEN IF ~authCheck.isAuthenticated
          THEN Finish(db, Msg(u, "not_authenticated"))
          ELSE Finish(clearUserAuthData(db, u), Msg(u, "no_valid_token"))
     ELSE Finish(db, Msg(u, "access_token"))

handleBackToStart(u) ==
  LET authCheck == checkUserAuthentication(db, u)
  IN Finish(db, Msg(u, createWelcomeMessage(authCheck)))

handleLogoutUser(u) ==
  LET authCheck == checkUserAuthentication(db, u)
  IN IF ~authCheck.isAuthenticated
     THEN Finish(db, Msg(u, "already_logged_out"))
     ELSE Finish(clearUserAuthData(db, u), Msg(u, "logout_successful"))

handleCheckStatus(u) ==
  LET authCheck == checkUserAuthentication(db, u)
  IN IF ~authCheck.isAuthenticated \/ ~authCheck.hasValidToken
     THEN IF ~authCheck.isAuthenticated
          THEN Finish(db, Msg(u, "status_not_authenticated"))
          ELSE Finish(clearUserAuthData(db, u), Msg(u, "status_token_expired"))
     ELSE Finish(db, Msg(u, "authentication_status"))

\* legacy login completion: the privy id is the rest of the callback data
handleLoginComplete(u, privyUserId) ==
  Finish(updateUserAuthStatus(db, u, TRUE, privyUserId, Absent, now),
         Msg(u, "login_successful"))

handleCreateAgent(u) ==
  LET authCheck == checkUserAuthentication(db, u)
  IN IF ~authCheck.isAuthenticated \/ ~authCheck.hasValidToken
     THEN IF ~authCheck.isAuthenticated
          THEN Finish(db, Msg(u, "create_not_authenticated"))
          ELSE Finish(clearUserAuthData(db, u), Msg(u, "create_token_expired"))
     ELSE /\ db' = db
          /\ userStates' = [userStates EXCEPT ![u] = AwaitingPrompt]
          /\ sent' = Msg(u, "agent_prompt_request")
          /\ NoHttp
          /\ UNCHANGED <<tasks, now, infra>>

handleCancelAgentCreation(u) ==
  LET authCheck == checkUserAuthentication(db, u)
  IN /\ db' = db
     /\ userStates' = [userStates EXCEPT ![u] = NoState]
     /\ sent' = Msg(u, createWelcomeMessage(authCheck))
     /\ NoHttp
     /\ UNCHANGED <<tasks, now, infra>>

\* the catch block of processAgentCreation
agentCreationFailed(u, error) ==
  IF error = "401"
     THEN Suspend(u, clearUserAuthData(db, u), IdleTask, Msg(u, "creation_failed_reauth"))
     ELSE Suspend(u, db, IdleTask, Msg(u, "creation_failed"))

\* bot.on('message') with a text that is no command while the user is not
\* awaiting_agent_prompt: the handler returns without doing anything
messageText(u) ==
  /\ userStates[u] # AwaitingPrompt
  /\ sent' = NoMsg
  /\ NoHttp
  /\ UNCHANGED <<db, userStates, tasks, now, infra>>

\* the state is left as it is when the prompt is processed
processAgentCreationKeepsState(u, promptOk) ==
  /\ userStates[u] = AwaitingPrompt
  /\ userStates' = userStates
  /\ NoHttp
  /\ UNCHANGED <<now, infra>>
  /\ LET authCheck == checkUserAuthentication(db, u)
     IN IF ~promptOk
        THEN db' = db /\ tasks' = tasks /\ sent' = Msg(u, "prompt_too_short")
        ELSE IF ~authCheck.isAuthenticated \/ ~authCheck.hasValidToken
             THEN db' = db /\ tasks' = tasks /\ sent' = Msg(u, "authentication_required")
             ELSE /\ tasks[u] = IdleTask
                  /\ db' = db
                  /\ tasks' = [tasks EXCEPT ![u] = Task("create_agent", "processing", authCheck,
                                                        Absent)]
                  /\ sent' = Msg(u, "creating_agent")

\* bot.on('message') with a text while the user is awaiting_agent_prompt:
\* clearUserState, then processAgentCreation up to its first await
processAgentCreation(u, promptOk) ==
  /\ userStates[u] = AwaitingPrompt
  /\ userStates' = [userStates EXCEPT ![u] = NoState]
  /\ NoHttp
  /\ UNCHANGED <<now, infra>>
  /\ LET authCheck == checkUserAuthentication(db, u)
     IN IF ~promptOk
        THEN db' = db /\ tasks' = tasks /\ sent' = Msg(u, "prompt_too_short")
        ELSE IF ~authCheck.isAuthenticated \/ ~authCheck.hasValidToken
             THEN db' = db /\ tasks' = tasks /\ sent' = Msg(u, "authentication_required")
             ELSE /\ tasks[u] = IdleTask
                  /\ db' = db
                  /\ tasks' = [tasks EXCEPT ![u] = Task("create_agent", "processing", authCheck,
                                                        Absent)]
                  /\ sent' = Msg(u, "creating_agent")

\* the awaited processing message settles; on success generateAgent is called
processAgentCreationSent(u, sendOk) ==
  /\ tasks[u].kind = "create_agent"
  /\ tasks[u].pc = "processing"
  /\ IF sendOk
     THEN Suspend(u, db,
                  [tasks[u] EXCEPT !.pc = "generateAgent",
                                   !.accessToken = getUserAccessToken(db, u)],
                  NoMsg)
     ELSE agentCreationFailed(u, "noresp")

\* generateAgent settles; on success createAgent is called with the same token
processAgentCreationGenerated(u, outcome) ==
  /\ tasks[u].kind = "create_agent"
  /\ tasks[u].pc = "generateAgent"
  /\ IF outcome = "ok"
     THEN Suspend(u, db, [tasks[u] EXCEPT !.pc = "createAgent"], NoMsg)
     ELSE agentCreationFailed(u, outcome)

processAgentCreationCreated(u, outcome) ==
  /\ tasks[u].kind = "create_agent"
  /\ tasks[u].pc = "createAgent"
  /\ IF outcome = "ok"
     THEN Suspend(u, db, IdleTask, Msg(u, "agent_created"))
     ELSE agentCreationFailed(u, outcome)

\* bot.on('message') with web_app_data
WebAppData == {"login_complete", "other_type", "bad_json"}

handleWebAppData(u, data, privyUserId) ==
  IF data = "bad_json"
  THEN Finish(db, Msg(u, "authentication_error"))
  ELSE IF data = "login_complete" /\ privyUserId # NoPrivyId
       THEN Finish(updateUserAuthStatus(db, u, TRUE, privyUserId, Absent, now),
                   Msg(u, "authentication_successful"))
       ELSE Finish(db, NoMsg)

\* ------------------------------------------------------- routes/auth.js
\* POST /auth/callback; iv is the nonce crypto.randomBytes draws if it encrypts
processAccessTokenAlwaysEncrypt(privyAccessToken, iv) ==
  IF privyAccessToken = Absent
  THEN [ok |-> TRUE, token |-> Absent]
  ELSE encryptPrivyAccessToken(privyAccessToken, iv)

processAccessTokenStoreRaw(privyAccessToken, iv) ==
  IF privyAccessToken = Absent \/ isValidEncryptedToken(privyAccessToken)
  THEN [ok |-> TRUE, token |-> privyAccessToken]
  ELSE [ok |-> encryptPrivyAccessToken(privyAccessToken, iv).ok, token |-> privyAccessToken]

processAccessToken(privyAccessToken, iv) ==
  IF privyAccessToken = Absent
  THEN [ok |-> TRUE, token |-> Absent]
  ELSE IF isValidEncryptedToken(privyAccessToken)
       THEN [ok |-> TRUE, token |-> privyAccessToken]
       ELSE encryptPrivyAccessToken(privyAccessToken, iv)

\* the record is written before the credential is processed
authCallbackUpdateFirst(telegramUserId, privyUserId, isAuthenticated, privyAccessToken, iv) ==
  /\ UNCHANGED <<userStates, tasks, now, core>>
  /\ req' = [made |-> TRUE, user |-> telegramUserId, token |-> privyAccessToken,
             before |-> getUserAuthStatus(db, telegramUserId).data.privyAccessToken]
  /\ IF telegramUserId = NoUser
     THEN db' = db /\ sent' = NoMsg /\ res' = Res(400, "telegramUserId is required")
     ELSE LET enc == processAccessToken(privyAccessToken, iv)
          IN /\ db' = updateUserAuthStatus(db, telegramUserId, isAuthenticated, privyUserId,
                                            IF enc.ok THEN enc.token ELSE Absent, now)
             /\ IF ~enc.ok
                THEN sent' = NoMsg /\ res' = Res(400, "Failed to process access token")
                ELSE /\ sent' = IF isAuthenticated
                                THEN Msg(telegramUserId, "authentication_successful")
                                ELSE NoMsg
                     /\ res' = Res(200, "Authentication status updated")
  /\ escaped' = (escaped \/ (sent'.kind # "none" /\ ~transportUp))

\* the confirmation is awaited: its rejection ends in the catch block
authCallbackAwaitsSend(telegramUserId, privyUserId, isAuthenticated, privyAccessToken, iv) ==
  /\ UNCHANGED <<userStates, tasks, now, core, escaped>>
  /\ req' = [made |-> TRUE, user |-> telegramUserId, token |-> privyAccessToken,
             before |-> getUserAuthStatus(db, telegramUserId).data.privyAccessToken]
  /\ IF telegramUserId = NoUser
     THEN db' = db /\ sent' = NoMsg /\ res' = Res(400, "telegramUserId is required")
     ELSE LET enc == processAccessToken(privyAccessToken, iv)
          IN IF ~enc.ok
             THEN db' = db /\ sent' = NoMsg /\ res' = Res(400, "Failed to process access token")
             ELSE /\ db' = updateUserAuthStatus(db, telegramUserId, isAuthenticated,
                                                privyUserId, enc.token, now)
                  /\ sent' = IF isAuthenticated
                             THEN Msg(telegramUserId, "authentication_successful")
                             ELSE NoMsg
                  /\ res' = IF isAuthenticated /\ ~transportUp
                            THEN Res(500, "Internal server error")
                            ELSE Res(200, "Authentication status updated")

\* POST /auth/callback: the confirmation is sent without await and without a
\* rejection handler, so the response is written whatever becomes of it, and
\* a failed send is a rejection nobody handles
authCallback(telegramUserId, privyUserId, isAuthenticated, privyAccessToken, iv) ==
  /\ UNCHANGED <<userStates, tasks, now, core>>
  /\ req' = [made |-> TRUE, user |-> telegramUserId, token |-> privyAccessToken,
             before |-> getUserAuthStatus(db, telegramUserId).data.privyAccessToken]
  /\ IF telegramUserId = NoUser
     THEN db' = db /\ sent' = NoMsg /\ res' = Res(400, "telegramUserId is required")
     ELSE LET enc == processAccessToken(privyAccessToken, iv)
          IN IF ~enc.ok
             THEN db' = db /\ sent' = NoMsg /\ res' = Res(400, "Failed to process access token")
             ELSE /\ db' = updateUserAuthStatus(db, telegramUserId, isAuthenticated,
                                                privyUserId, enc.token, now)
                  /\ sent' = IF isAuthenticated
                             THEN Msg(telegramUserId, "authentication_successful")
                             ELSE NoMsg
                  /\ res' = Res(200, "Authentication status updated")
  /\ escaped' = (escaped \/ (sent'.kind # "none" /\ ~transportUp))

\* the nonces that make a difference: one when nothing is encrypted
Nonces(privyAccessToken) ==
  IF privyAccessToken = Absent \/ ~IsString(privyAccessToken)
     \/ isValidEncryptedToken(privyAccessToken)
  THEN {1}
  ELSE 1..MaxIV

\* ------------------------------------------------------------- environment
Tick ==
  /\ now < MaxClock
  /\ now' = now + 1
  /\ sent' = NoMsg
  /\ NoHttp
  /\ UNCHANGED <<db, userStates, tasks, infra>>

\* ------------------------------------------------ routes/webhook.js
Window == 300
MaxPending == 10
\* the wall clock, in seconds, when the webhook routes are first used
HookEpoch == 1000
\* last_error_date as getWebHookInfo reports it: 0 when there was no error,
\* else a time around the edge of the window, or ahead of the local clock
ErrorDates ==
  {0, HookEpoch - Window - 1, HookEpoch - Window, HookEpoch - Window + 1, HookEpoch + 1}
PendingCounts == {0, MaxPending, MaxPending + 1}
WebhookInfos ==
  [url : Urls \cup {NoUrl}, last_error_date : ErrorDates, pending_update_count : PendingCounts]

\* the window test passes at exactly 300 seconds
autoResetDecisionInclusive(info, expectedUrl, date) ==
  LET urlCheck == IF info.url # expectedUrl
                  THEN [needsReset |-> TRUE, reason |-> "URL mismatch"]
                  ELSE [needsReset |-> FALSE, reason |-> ""]
      errorCheck == IF info.last_error_date # 0 /\ date - info.last_error_date <= Window
                    THEN [needsReset |-> TRUE, reason |-> "Recent errors detected"]
                    ELSE urlCheck
  IN IF info.pending_update_count > MaxPending
     THEN [needsReset |-> TRUE, reason |-> "Too many pending updates"]
     ELSE errorCheck

\* the first test that holds names the reason, later ones do not overwrite it
autoResetDecisionFirstWins(info, expectedUrl, date) ==
  IF info.url # expectedUrl
  THEN [needsReset |-> TRUE, reason |-> "URL mismatch"]
  ELSE IF info.last_error_date # 0 /\ date - info.last_error_date < Window
       THEN [needsReset |-> TRUE, reason |-> "Recent errors detected"]
       ELSE IF info.pending_update_count > MaxPending
            THEN [needsReset |-> TRUE, reason |-> "Too many pending updates"]
            ELSE [needsReset |-> FALSE, reason |-> ""]

\* the three tests of the handler, each overwriting needsReset and reason
autoResetDecision(info, expectedUrl, date) ==
  LET urlCheck == IF info.url # expectedUrl
                  THEN [needsReset |-> TRUE, reason |-> "URL mismatch"]
                  ELSE [needsReset |-> FALSE, reason |-> ""]
      errorCheck == IF info.last_error_date # 0 /\ date - info.last_error_date < Window
                    THEN [needsReset |-> TRUE, reason |-> "Recent errors detected"]
                    ELSE urlCheck
  IN IF info.pending_update_count > MaxPending
     THEN [needsReset |-> TRUE, reason |-> "Too many pending updates"]
     ELSE errorCheck

\* a step of the webhook routes: no message, no change to the store
HookStep ==
  /\ sent' = NoMsg
  /\ req' = NoReq
  /\ UNCHANGED <<db, userStates, tasks, now, readable, ops, transportUp, escaped>>

\* POST /auto-reset-webhook up to await bot.getWebHookInfo()
autoResetWebhook(expectedUrl) ==
  /\ hookTask.pc = "idle"
  /\ hookTask' = [pc |-> "getWebHookInfo", expectedUrl |-> expectedUrl,
                  needsReset |-> FALSE, reason |-> ""]
  /\ botCall' = NoCall
  /\ res' = NoRes
  /\ webhookInfo' = webhookInfo
  /\ HookStep
\* the registration is set whatever the tests say
autoResetWebhookInfoAlwaysSet(ok) ==
  /\ hookTask.pc = "getWebHookInfo"
  /\ webhookInfo' = webhookInfo
  /\ HookStep
  /\ IF ~ok
     THEN /\ hookTask' = [hookTask EXCEPT !.pc = "idle"]
          /\ botCall' = NoCall
          /\ res' = Res(500, "Failed to check/reset webhook")
     ELSE LET d == autoResetDecision(webhookInfo, hookTask.expectedUrl, now)
          IN /\ hookTask' = [hookTask EXCEPT !.pc = "setWebHook",
                                             !.needsReset = d.needsReset,
                                             !.reason = d.reason]
             /\ botCall' = [made |-> TRUE, url |-> hookTask.expectedUrl,
                            drop_pending_updates |-> TRUE]
             /\ res' = NoRes

\* getWebHookInfo settles: the three tests, then either await bot.setWebHook
\* or the "no reset needed" response; a rejection ends in the catch block
autoResetWebhookInfo(ok) ==
  /\ hookTask.pc = "getWebHookInfo"
  /\ webhookInfo' = webhookInfo
  /\ HookStep
  /\ IF ~ok
     THEN /\ hookTask' = [hookTask EXCEPT !.pc = "idle"]
          /\ botCall' = NoCall
          /\ res' = Res(500, "Failed to check/reset webhook")
     ELSE LET d == autoResetDecision(webhookInfo, hookTask.expectedUrl, now)
          IN IF d.needsReset
             THEN /\ hookTask' = [hookTask EXCEPT !.pc = "setWebHook",
                                                  !.needsReset = TRUE,
                                                  !.reason = d.reason]
                  /\ botCall' = [made |-> TRUE, url |-> hookTask.expectedUrl,
                                 drop_pending_updates |-> TRUE]
                  /\ res' = NoRes
             ELSE /\ hookTask' = [hookTask EXCEPT !.pc = "idle"]
                  /\ botCall' = NoCall
                  /\ res' = Res(200, "reset_false")

\* setWebHook settles: the transport now holds the expected URL and has
\* dropped its pending updates, or the call was rejected
autoResetWebhookSet(ok) ==
  /\ hookTask.pc = "setWebHook"
  /\ hookTask' = [hookTask EXCEPT !.pc = "idle"]
  /\ botCall' = NoCall
  /\ HookStep
  /\ IF ok
     THEN /\ webhookInfo' = [webhookInfo EXCEPT !.url = hookTask.expectedUrl,
                                                !.pending_update_count = 0]
          /\ res' = Res(200, "reset_true")
     ELSE /\ webhookInfo' = webhookInfo
          /\ res' = Res(500, "Failed to check/reset webhook")

\* the transport provider: a delivery to the webhook fails, updates queue up
\* or are delivered, the registration is changed from elsewhere
deliveryFails ==
  /\ webhookInfo' = [webhookInfo EXCEPT !.last_error_date = now]
  /\ res' = NoRes
  /\ UNCHANGED <<hookTask, botCall>>
  /\ HookStep

updatesPending(n) ==
  /\ webhookInfo' = [webhookInfo EXCEPT !.pending_update_count = n]
  /\ res' = NoRes
  /\ UNCHANGED <<hookTask, botCall>>
  /\ HookStep

registrationChanged(url) ==
  /\ webhookInfo.url # url
  /\ webhookInfo' = [webhookInfo EXCEPT !.url = url]
  /\ res' = NoRes
  /\ UNCHANGED <<hookTask, botCall>>
  /\ HookStep

hookTick ==
  /\ now < HookEpoch + MaxClock
  /\ now' = now + 1
  /\ sent' = NoMsg
  /\ NoHttp
  /\ UNCHANGED <<db, userStates, tasks, infra>>

\* ------------------------------------------------------- routes/health.js
HealthWindow == 300

\* an error exactly 300 seconds old still counts as recent
healthStatusInclusive(info, date) ==
  IF info.last_error_date # 0 /\ date - info.last_error_date <= HealthWindow
  THEN "unhealthy"
  ELSE "healthy"

\* health.status: 'healthy' unless there is a recent error
healthStatus(info, date) ==
  IF info.last_error_date # 0 /\ date - info.last_error_date < HealthWindow
  THEN "unhealthy"
  ELSE "healthy"

\* a step of GET /health: no message, no change to the store or the registration
HealthStep ==
  /\ sent' = NoMsg
  /\ req' = NoReq
  /\ UNCHANGED <<db, userStates, tasks, now, readable, webhookInfo, hookTask, botCall>>
  /\ UNCHANGED <<monitorTask, setupTask, shutdown, handed, cipher, transportUp, escaped, setHookTask>>

\* GET /health up to await bot.getWebHookInfo()
health ==
  /\ healthTask.pc = "idle"
  /\ healthTask' = [pc |-> "getWebHookInfo", read |-> "none"]
  /\ res' = NoRes
  /\ HealthStep

\* getWebHookInfo settles: the health object is built and sent, or the
\* rejection ends in the catch block with status 500
healthInfo(ok) ==
  /\ healthTask.pc = "getWebHookInfo"
  /\ healthTask' = [pc |-> "idle", read |-> IF ok THEN "ok" ELSE "failed"]
  /\ res' = IF ok THEN Res(200, healthStatus(webhookInfo, now)) ELSE Res(500, "error")
  /\ HealthStep

\* ------------------------------------------------------ monitor-webhook.js
\* a step of the monitor process: it serves no request and sends no message
MonitorStep ==
  /\ sent' = NoMsg
  /\ NoHttp
  /\ UNCHANGED <<db, userStates, tasks, now, readable, webhookInfo, hookTask, botCall>>
  /\ UNCHANGED <<healthTask, setupTask, shutdown, handed, cipher, transportUp, escaped, setHookTask>>

\* monitorWebhook() up to await checkServerHealth()
monitorWebhook(expectedUrl) ==
  /\ monitorTask.pc = "idle"
  /\ monitorTask' = [pc |-> "checkServerHealth", expectedUrl |-> expectedUrl,
                     status |-> "none"]
  /\ MonitorStep

\* the server has answered GET /health: only 'unhealthy' triggers the reset,
\* any other status ends the run with "Webhook is healthy"
monitorHealth ==
  /\ monitorTask.pc = "checkServerHealth"
  /\ res.body \in {"healthy", "unhealthy", "error"}
  /\ monitorTask' = [monitorTask EXCEPT
                       !.pc = IF res.body = "unhealthy" THEN "triggerAutoReset" ELSE "idle",
                       !.status = res.body]
  /\ MonitorStep

\* the request fails or the answer is not JSON: the catch block tries the
\* reset directly
monitorHealthFails ==
  /\ monitorTask.pc = "checkServerHealth"
  /\ monitorTask' = [monitorTask EXCEPT !.pc = "directReset", !.status = "unreachable"]
  /\ MonitorStep

\* the server has answered POST /auto-reset-webhook
monitorReset ==
  /\ monitorTask.pc \in {"triggerAutoReset", "directReset"}
  /\ hookTask.pc = "idle"
  /\ res.body \in {"reset_true", "reset_false", "Failed to check/reset webhook"}
  /\ monitorTask' = [monitorTask EXCEPT !.pc = "idle", !.status = res.body]
  /\ MonitorStep

\* triggerAutoReset rejects: inside the try block this leads to the catch
\* block and a second, direct try; inside the catch block it ends the run
monitorResetFails ==
  /\ monitorTask.pc \in {"triggerAutoReset", "directReset"}
  /\ monitorTask' =
       IF monitorTask.pc = "triggerAutoReset"
       THEN [monitorTask EXCEPT !.pc = "directReset", !.status = "unreachable"]
       ELSE [monitorTask EXCEPT !.pc = "idle", !.status = "reset_failed"]
  /\ MonitorStep

InitHook ==
  /\ db = <<>>
  /\ userStates = [u \in Users |-> NoState]
  /\ tasks = [u \in Users |-> IdleTask]
  /\ sent = NoMsg
  /\ req = NoReq
  /\ res = NoRes
  /\ now = HookEpoch
  /\ readable = TRUE
  /\ webhookInfo \in WebhookInfos
  /\ hookTask = IdleHook
  /\ botCall = NoCall
  /\ OpsInit

NextHook ==
  \/ \E expectedUrl \in Urls : autoResetWebhook(expectedUrl)
  \/ \E ok \in BOOLEAN : autoResetWebhookInfo(ok)
  \/ \E ok \in BOOLEAN : autoResetWebhookSet(ok)
  \/ deliveryFails
  \/ \E n \in PendingCounts : updatesPending(n)
  \/ \E url \in Urls \cup {NoUrl} : registrationChanged(url)
  \/ hookTick
  \/ health
  \/ \E ok \in BOOLEAN : healthInfo(ok)

SpecHook == InitHook /\ [][NextHook]_vars

\* the server's webhook routes with the monitor running against them
NextMonitor ==
  \/ NextHook
  \/ \E expectedUrl \in Urls : monitorWebhook(expectedUrl)
  \/ monitorHealth
  \/ monitorHealthFails
  \/ monitorReset
  \/ monitorResetFails

SpecMonitor == InitHook /\ [][NextMonitor]_vars

\* ------------------------------------------- app.js: webhook setup at start
MaxRetries == 3
StartupDelay == 5
SetPause == 1

\* a step of the setup: no message, no HTTP response
SetupStep ==
  /\ sent' = NoMsg
  /\ NoHttp
  /\ handed' = NoUpdate
  /\ UNCHANGED <<db, userStates, tasks, now, readable, hookTask>>
  /\ UNCHANGED <<healthTask, monitorTask, cipher, transportUp, escaped, setHookTask>>

\* the callback of app.listen: production with a base URL arms the 5 second
\* timer, USE_POLLING deletes the webhook, anything else does nothing
listen(mode, expectedUrl) ==
  /\ setupTask.pc = "off"
  /\ setupTask' =
       IF mode = "production"
       THEN [setupTask EXCEPT !.pc = "startupDelay", !.expectedUrl = expectedUrl,
                              !.wait = StartupDelay]
       ELSE IF mode = "polling"
            THEN [setupTask EXCEPT !.pc = "pollingDelete", !.call = "deleteWebHook"]
            ELSE [setupTask EXCEPT !.pc = "returned"]
  /\ botCall' = NoCall
  /\ UNCHANGED <<webhookInfo, shutdown>>
  /\ SetupStep

\* polling mode: deleteWebHook settles, a rejection is logged
listenDeleted(ok) ==
  /\ setupTask.pc = "pollingDelete"
  /\ setupTask' = [setupTask EXCEPT !.pc = "returned", !.call = "none"]
  /\ webhookInfo' = IF ok THEN [webhookInfo EXCEPT !.url = NoUrl] ELSE webhookInfo
  /\ botCall' = NoCall
  /\ UNCHANGED shutdown
  /\ SetupStep

\* the 5 second timer fires: setupWebhookWithRetry() starts attempt 1 and
\* runs up to await bot.deleteWebHook()
setupWebhookWithRetry ==
  /\ setupTask.pc = "startupDelay"
  /\ setupTask' = [setupTask EXCEPT !.pc = "deleteWebHook", !.attempt = 1,
                                    !.call = "deleteWebHook", !.wait = 0,
                                    !.deleted = "none"]
  /\ botCall' = NoCall
  /\ UNCHANGED <<webhookInfo, shutdown>>
  /\ SetupStep

\* a rejected deleteWebHook ends the attempt in its catch block
setupDeletedStrict(ok) ==
  /\ setupTask.pc = "deleteWebHook"
  /\ setupTask' = IF ok
                  THEN [setupTask EXCEPT !.pc = "pause", !.call = "none",
                                         !.wait = SetPause, !.deleted = "ok"]
                  ELSE [setupTask EXCEPT !.pc = IF setupTask.attempt = MaxRetries
                                               THEN "returned" ELSE "backoff",
                                         !.call = "none",
                                         !.wait = setupTask.attempt * 2,
                                         !.failed = setupTask.failed + 1,
                                         !.deleted = "failed"]
  /\ webhookInfo' = IF ok THEN [webhookInfo EXCEPT !.url = NoUrl] ELSE webhookInfo
  /\ botCall' = NoCall
  /\ UNCHANGED shutdown
  /\ SetupStep

\* a deleteWebHook that resolves leaves the registration as it was
setupDeletedKeepsRegistration(ok) ==
  /\ setupTask.pc = "deleteWebHook"
  /\ setupTask' = [setupTask EXCEPT !.pc = "pause", !.call = "none", !.wait = SetPause,
                                    !.deleted = IF ok THEN "ok" ELSE "failed"]
  /\ webhookInfo' = webhookInfo
  /\ botCall' = NoCall
  /\ UNCHANGED shutdown
  /\ SetupStep

\* deleteWebHook settles; a rejection is ignored; the 1 second pause starts
setupDeleted(ok) ==
  /\ setupTask.pc = "deleteWebHook"
  /\ setupTask' = [setupTask EXCEPT !.pc = "pause", !.call = "none", !.wait = SetPause,
                                    !.deleted = IF ok THEN "ok" ELSE "failed"]
  /\ webhookInfo' = IF ok THEN [webhookInfo EXCEPT !.url = NoUrl] ELSE webhookInfo
  /\ botCall' = NoCall
  /\ UNCHANGED shutdown
  /\ SetupStep

\* the pause is over: await bot.setWebHook(webhookUrl, ...)
setupPauseOver ==
  /\ setupTask.pc = "pause"
  /\ setupTask' = [setupTask EXCEPT !.pc = "setWebHook", !.call = "setWebHook", !.wait = 0]
  /\ botCall' = [made |-> TRUE, url |-> setupTask.expectedUrl,
                 drop_pending_updates |-> FALSE]
  /\ UNCHANGED <<webhookInfo, shutdown>>
  /\ SetupStep

\* every failed attempt is followed by a wait, the last one too
attemptFailedAlwaysWaits(task) ==
  [task EXCEPT !.pc = IF task.attempt = MaxRetries THEN "lastWait" ELSE "backoff",
               !.call = "none", !.wait = task.attempt * 2, !.failed = task.failed + 1]

\* the catch block of an attempt: after the last attempt the loop ends and
\* the function returns, else the backoff timer of attempt * 2 seconds starts
attemptFailed(task) ==
  IF task.attempt = MaxRetries
  THEN [task EXCEPT !.pc = "returned", !.call = "none", !.wait = 0,
                    !.failed = task.failed + 1, !.result = "exhausted"]
  ELSE [task EXCEPT !.pc = "backoff", !.call = "none", !.wait = task.attempt * 2,
                    !.failed = task.failed + 1]

\* setWebHook settles: then await bot.getWebHookInfo(), or the catch block
setupSet(ok) ==
  /\ setupTask.pc = "setWebHook"
  /\ setupTask' = IF ok
                  THEN [setupTask EXCEPT !.pc = "getWebHookInfo", !.call = "getWebHookInfo"]
                  ELSE attemptFailed(setupTask)
  /\ webhookInfo' = IF ok THEN [webhookInfo EXCEPT !.url = setupTask.expectedUrl]
                          ELSE webhookInfo
  /\ botCall' = NoCall
  /\ UNCHANGED shutdown
  /\ SetupStep

\* getWebHookInfo settles: the registration is logged, whatever its URL, and
\* the function returns; a rejection ends in the same catch block
setupVerified(ok) ==
  /\ setupTask.pc = "getWebHookInfo"
  /\ setupTask' = IF ok
                  THEN [setupTask EXCEPT !.pc = "returned", !.call = "none",
                                         !.result = "success"]
                  ELSE attemptFailed(setupTask)
  /\ botCall' = NoCall
  /\ UNCHANGED <<webhookInfo, shutdown>>
  /\ SetupStep

\* the backoff timer fires: the next attempt starts with deleteWebHook
setupBackoffOver ==
  /\ setupTask.pc = "backoff"
  /\ setupTask' = [setupTask EXCEPT !.pc = "deleteWebHook",
                                    !.attempt = setupTask.attempt + 1,
                                    !.call = "deleteWebHook", !.wait = 0,
                                    !.deleted = "none"]
  /\ botCall' = NoCall
  /\ UNCHANGED <<webhookInfo, shutdown>>
  /\ SetupStep

\* process.on('SIGTERM') while the server listens: server.close(); no timer
\* is cleared
sigterm ==
  /\ setupTask.pc # "off"
  /\ ~shutdown
  /\ shutdown' = TRUE
  /\ botCall' = NoCall
  /\ UNCHANGED <<webhookInfo, setupTask>>
  /\ SetupStep

\* ------------------------------------------------ routes/webhook.js: POST /webhook
\* req.body as express.json() leaves it
Bodies == {"undefined", "null", "emptyString", "string", "number", "array", "object"}
Truthy(body) == body \notin {"undefined", "null", "emptyString"}
TypeOf(body) ==
  IF body \in {"null", "array", "object"} THEN "object"
  ELSE IF body \in {"string", "emptyString"} THEN "string"
  ELSE body

\* the update is processed before the body is looked at
createWebhookHandlerNoValidation(body, throws) ==
  /\ ~shutdown
  /\ handed' = [body |-> body, calls |-> 1, threw |-> throws]
  /\ res' = IF throws
            THEN Res(500, "Internal server error")
            ELSE [status |-> 200, body |-> "ok", timestamp |-> now]
  /\ sent' = NoMsg
  /\ req' = NoReq
  /\ botCall' = NoCall
  /\ UNCHANGED <<db, userStates, tasks, now, readable, webhookInfo, hookTask>>
  /\ UNCHANGED <<healthTask, monitorTask, setupTask, shutdown, cipher, transportUp, escaped, setHookTask>>

\* POST /webhook, served while the server listens
createWebhookHandler(body, throws) ==
  /\ ~shutdown
  /\ IF ~Truthy(body) \/ TypeOf(body) # "object"
     THEN /\ handed' = [body |-> body, calls |-> 0, threw |-> FALSE]
          /\ res' = Res(400, "Invalid webhook data")
     ELSE /\ handed' = [body |-> body, calls |-> 1, threw |-> throws]
          /\ res' = IF throws
                    THEN Res(500, "Internal server error")
                    ELSE [status |-> 200, body |-> "ok", timestamp |-> now]
  /\ sent' = NoMsg
  /\ req' = NoReq
  /\ botCall' = NoCall
  /\ UNCHANGED <<db, userStates, tasks, now, readable, webhookInfo, hookTask>>
  /\ UNCHANGED <<healthTask, monitorTask, setupTask, shutdown, cipher, transportUp, escaped, setHookTask>>

Modes == {"production", "polling", "none"}

\* the server on its own: nobody else touches the registration
NextSetupAlone ==
  \/ \E mode \in Modes, url \in Urls : listen(mode, url)
  \/ \E ok \in BOOLEAN : listenDeleted(ok)
  \/ setupWebhookWithRetry
  \/ \E ok \in BOOLEAN : setupDeleted(ok)
  \/ setupPauseOver
  \/ \E ok \in BOOLEAN : setupSet(ok)
  \/ \E ok \in BOOLEAN : setupVerified(ok)
  \/ setupBackoffOver
  \/ sigterm
  \/ \E body \in Bodies, throws \in BOOLEAN : createWebhookHandler(body, throws)

NextSetup ==
  \/ NextSetupAlone
  \/ \E url \in Urls \cup {NoUrl} : registrationChanged(url)

SpecSetup == Init /\ [][NextSetup]_vars

\* a restart: a webhook set by an earlier run of the server is registered
RegisteredUrl == "https://a/webhook"
InitRegistered ==
  /\ db = <<>>
  /\ userStates = [u \in Users |-> NoState]
  /\ tasks = [u \in Users |-> IdleTask]
  /\ sent = NoMsg
  /\ req = NoReq
  /\ res = NoRes
  /\ now = 0
  /\ readable = TRUE
  /\ webhookInfo \in [url : {RegisteredUrl}, last_error_date : {0},
                       pending_update_count : PendingCounts]
  /\ hookTask = IdleHook
  /\ botCall = NoCall
  /\ OpsInit

SpecSetupAlone == InitRegistered /\ [][NextSetupAlone]_vars

\* ------------------------------------------ routes/webhook.js: POST /set-webhook
\* the URL both routes register: WEBHOOK_BASE_URL + "/webhook" when the
\* variable is set, else the one built from the request's Host header
routeUrl(baseUrl, host) == IF baseUrl # NoUrl THEN baseUrl ELSE host

\* a step of POST /set-webhook: no message, no change to the store
SetHookStep ==
  /\ sent' = NoMsg
  /\ req' = NoReq
  /\ UNCHANGED <<db, userStates, tasks, now, readable, hookTask, transportUp, escaped>>
  /\ UNCHANGED <<healthTask, monitorTask, setupTask, shutdown, handed, cipher>>

\* the route ignores WEBHOOK_BASE_URL and registers the Host header's URL
createSetWebhookHandlerHostOnly(baseUrl, host) ==
  /\ ~shutdown
  /\ setHookTask.pc = "idle"
  /\ setHookTask' = [pc |-> "setWebHook", webhookUrl |-> host]
  /\ botCall' = [made |-> TRUE, url |-> host, drop_pending_updates |-> FALSE]
  /\ res' = NoRes
  /\ webhookInfo' = webhookInfo
  /\ SetHookStep

\* POST /set-webhook up to await bot.setWebHook(webhookUrl, ...)
createSetWebhookHandler(baseUrl, host) ==
  /\ ~shutdown
  /\ setHookTask.pc = "idle"
  /\ setHookTask' = [pc |-> "setWebHook", webhookUrl |-> routeUrl(baseUrl, host)]
  /\ botCall' = [made |-> TRUE, url |-> routeUrl(baseUrl, host),
                 drop_pending_updates |-> FALSE]
  /\ res' = NoRes
  /\ webhookInfo' = webhookInfo
  /\ SetHookStep

\* setWebHook settles: the transport holds the URL and the route answers
\* success, or the rejection ends in the catch block with status 500
createSetWebhookHandlerSet(ok) ==
  /\ setHookTask.pc = "setWebHook"
  /\ setHookTask' = [setHookTask EXCEPT !.pc = "idle"]
  /\ botCall' = NoCall
  /\ SetHookStep
  /\ IF ok
     THEN /\ webhookInfo' = [webhookInfo EXCEPT !.url = setHookTask.webhookUrl]
          /\ res' = Res(200, "Webhook set")
     ELSE /\ webhookInfo' = webhookInfo
          /\ res' = Res(500, "Failed to set webhook")

\* the server in production: the setup at start and requests to the two
\* routes, all reading the same WEBHOOK_BASE_URL, in any order
NextRoutes ==
  \/ \E mode \in Modes, url \in Urls : listen(mode, url)
  \/ \E ok \in BOOLEAN : listenDeleted(ok)
  \/ setupWebhookWithRetry
  \/ \E ok \in BOOLEAN : setupDeleted(ok)
  \/ setupPauseOver
  \/ \E ok \in BOOLEAN : setupSet(ok)
  \/ \E ok \in BOOLEAN : setupVerified(ok)
  \/ setupBackoffOver
  \/ \E host \in Urls :
       setupTask.pc # "off" /\ createSetWebhookHandler(setupTask.expectedUrl, host)
  \/ \E ok \in BOOLEAN : createSetWebhookHandlerSet(ok)
  \/ \E host \in Urls :
       setupTask.pc # "off" /\ autoResetWebhook(routeUrl(setupTask.expectedUrl, host))
  \/ \E ok \in BOOLEAN : autoResetWebhookInfo(ok)
  \/ \E ok \in BOOLEAN : autoResetWebhookSet(ok)

SpecRoutes == InitHook /\ [][NextRoutes]_vars

\* the file becomes unreadable (permissions, a corrupted content) and readable again
readFails ==
  /\ readable
  /\ readable' = FALSE
  /\ sent' = NoMsg
  /\ NoHttp
  /\ UNCHANGED <<db, userStates, tasks, now, webhookInfo, hookTask, botCall,
                 ops, transportUp, escaped>>

readRecovers ==
  /\ ~readable
  /\ readable' = TRUE
  /\ sent' = NoMsg
  /\ NoHttp
  /\ UNCHANGED <<db, userStates, tasks, now, webhookInfo, hookTask, botCall,
                 ops, transportUp, escaped>>

Next ==
  \/ \E u \in Users : handleStartCommand(u)
  \/ \E u \in Users : handleLoginCommand(u)
  \/ \E u \in Users : handleLogoutCommand(u)
  \/ \E u \in Users : handleStatusCommand(u)
  \/ \E u \in Users, o \in Outcomes : handleStatusCommandSettled(u, o)
  \/ \E u \in Users : handleAccessTokenCommand(u)
  \/ \E u \in Users : handleCreateAgentCommand(u)
  \/ \E u \in Users : handleMyAgentsCommand(u)
  \/ \E u \in Users, ok \in BOOLEAN : handleMyAgentsCommandLoaded(u, ok)
  \/ \E u \in Users, o \in Outcomes : handleMyAgentsCommandSettled(u, o)
  \/ \E u \in Users, a \in AgentIdArgs : handleGetAgentCommand(u, a)
  \/ \E u \in Users, ok \in BOOLEAN : handleGetAgentCommandLoaded(u, ok)
  \/ \E u \in Users : handleGetAccessToken(u)
  \/ \E u \in Users : handleBackToStart(u)
  \/ \E u \in Users : handleLogoutUser(u)
  \/ \E u \in Users : handleCheckStatus(u)
  \/ \E u \in Users, p \in PrivyIds \cup {NoPrivyId} : handleLoginComplete(u, p)
  \/ \E u \in Users : handleCreateAgent(u)
  \/ \E u \in Users : handleCancelAgentCreation(u)
  \/ \E u \in Users : messageText(u)
  \/ \E u \in Users, ok \in BOOLEAN : processAgentCreation(u, ok)
  \/ \E u \in Users, ok \in BOOLEAN : processAgentCreationSent(u, ok)
  \/ \E u \in Users, o \in Outcomes : processAgentCreationGenerated(u, o)
  \/ \E u \in Users, o \in Outcomes : processAgentCreationCreated(u, o)
  \/ \E u \in Users, d \in WebAppData, p \in PrivyIds \cup {NoPrivyId} : handleWebAppData(u, d, p)
  \/ \E t \in Users, p \in PrivyIds \cup {NoPrivyId}, a \in BOOLEAN, k \in SubmittedTokens :
        \E iv \in Nonces(k) : authCallback(t, p, a, k, iv)
  \/ \E p \in PrivyIds, k \in RawTokens : authCallback(NoUser, p, TRUE, k, 1)

Spec == Init /\ [][Next]_vars

\* --------------------------------------------- cryptoUtils.js, called directly
\* crypto.randomBytes(16): a handful of nonces
CipherNonces == 1..(6 * MaxIV)

\* a step of a caller of cryptoUtils.js
CipherStep ==
  /\ sent' = NoMsg
  /\ NoHttp
  /\ UNCHANGED <<db, userStates, tasks, now, readable, webhookInfo, hookTask, botCall>>
  /\ UNCHANGED <<healthTask, monitorTask, setupTask, shutdown, handed, transportUp, escaped, setHookTask>>

\* encrypt(text) with the nonce the call draws
cipherEncrypt(text, iv) ==
  /\ cipher.pc \in {"idle", "decrypted"}
  /\ LET e == encrypt(text, iv)
     IN cipher' = [pc |-> "encrypted", text |-> text, data |-> e.token,
                   out |-> Absent, ok |-> e.ok]
  /\ CipherStep

\* decrypt(data) of the token just made
cipherDecrypt ==
  /\ cipher.pc = "encrypted"
  /\ LET d == decrypt(cipher.data)
     IN cipher' = [cipher EXCEPT !.pc = "decrypted", !.out = d.text, !.ok = d.ok]
  /\ CipherStep

NextCipher ==
  \/ \E text \in Strings, iv \in CipherNonces : cipherEncrypt(text, iv)
  \/ cipherDecrypt

SpecCipher == Init /\ [][NextCipher]_vars

\* the transport starts failing to deliver, or delivers again
transportFails ==
  /\ transportUp
  /\ transportUp' = FALSE
  /\ sent' = NoMsg
  /\ NoHttp
  /\ UNCHANGED <<db, userStates, tasks, now, readable, webhookInfo, hookTask, botCall,
                 ops, escaped>>

transportRecovers ==
  /\ ~transportUp
  /\ transportUp' = TRUE
  /\ sent' = NoMsg
  /\ NoHttp
  /\ UNCHANGED <<db, userStates, tasks, now, readable, webhookInfo, hookTask, botCall,
                 ops, escaped>>

\* the identity provider's callback and the commands that log in and out,
\* over a transport that can fail
NextConfirm ==
  \/ \E t \in Users, p \in PrivyIds \cup {NoPrivyId}, a \in BOOLEAN, k \in SubmittedTokens :
        \E iv \in Nonces(k) : authCallback(t, p, a, k, iv)
  \/ \E p \in PrivyIds, k \in RawTokens : authCallback(NoUser, p, TRUE, k, 1)
  \/ \E u \in Users, p \in PrivyIds \cup {NoPrivyId} : handleLoginComplete(u, p)
  \/ \E u \in Users : handleLogoutCommand(u)
  \/ transportFails
  \/ transportRecovers

SpecConfirm == Init /\ [][NextConfirm]_vars

\* the same system with the wall clock advancing between steps
NextClock == Next \/ Tick
SpecClock == Init /\ [][NextClock]_vars

\* the same system with a store file whose reads can fail
NextFault == Next \/ readFails \/ readRecovers
SpecFault == Init /\ [][NextFault]_vars

\* two users whose handler runs interleave at their awaits: the callback, the
\* login button, /login, /logout and /status, which between them make every
\* kind of store write (a put, a logout, a ghost-state clear, a clear on 401)
Keys == {"u1", "u2"}
InitKeys ==
  /\ db = <<>>
  /\ userStates = [u \in Keys |-> NoState]
  /\ tasks = [u \in Keys |-> IdleTask]
  /\ sent = NoMsg
  /\ req = NoReq
  /\ res = NoRes
  /\ now = 0
  /\ readable = TRUE
  /\ webhookInfo = NoWebhook
  /\ hookTask = IdleHook
  /\ botCall = NoCall
  /\ OpsInit

NextKeys ==
  \/ \E t \in Keys, p \in PrivyIds \cup {NoPrivyId}, a \in BOOLEAN,
        k \in {Absent, RawToken(1)} : authCallback(t, p, a, k, 1)
  \/ \E u \in Keys, p \in PrivyIds : handleLoginComplete(u, p)
  \/ \E u \in Keys : handleLoginCommand(u)
  \/ \E u \in Keys : handleLogoutCommand(u)
  \/ \E u \in Keys : handleStatusCommand(u)
  \/ \E u \in Keys, o \in Outcomes : handleStatusCommandSettled(u, o)

SpecKeys == InitKeys /\ [][NextKeys]_vars

\* the two users over a store file whose reads can fail
NextKeysFault == NextKeys \/ readFails \/ readRecovers
SpecKeysFault == InitKeys /\ [][NextKeysFault]_vars

TypeOK ==
  /\ DOMAIN db \subseteq Users
  /\ now \in 0..MaxClock
  /\ DOMAIN tasks = Users


\* ------------------------------------------------------------ properties
Stored(u) == db[u].privyAccessToken
RemoteCalls == {"getUserAccount", "getUserAgents", "generateAgent", "createAgent"}
ReauthPrompts == {"reauth_401", "creation_failed_reauth"}
NotAuthenticated(file, u) ==
  LET authCheck == checkUserAuthentication(file, u)
  IN ~authCheck.isAuthenticated /\ ~authCheck.hasValidToken
LoginTransition(u) ==
  \/ \E p \in PrivyIds \cup {NoPrivyId}, k \in SubmittedTokens, iv \in 1..MaxIV :
       authCallback(u, p, TRUE, k, iv)
  \/ \E p \in PrivyIds \cup {NoPrivyId} : handleLoginComplete(u, p)
  \/ \E p \in PrivyIds : handleWebAppData(u, "login_complete", p)
\* the step of a handler run in which it calls checkUserAuthentication
ChecksAuthentication(u) ==
  \/ handleStartCommand(u)
  \/ handleLoginCommand(u)
  \/ handleLogoutCommand(u)
  \/ handleStatusCommand(u)
  \/ handleAccessTokenCommand(u)
  \/ handleCreateAgentCommand(u)
  \/ handleMyAgentsCommand(u)
  \/ \E a \in AgentIdArgs : handleGetAgentCommand(u, a)
  \/ handleGetAccessToken(u)
  \/ handleBackToStart(u)
  \/ handleLogoutUser(u)
  \/ handleCheckStatus(u)
  \/ handleCreateAgent(u)
  \/ handleCancelAgentCreation(u)
  \/ processAgentCreation(u, TRUE)
\* the step in which a credential-bearing remote call of u's handler settles
RemoteCallSettled(u, outcome) ==
  \/ handleStatusCommandSettled(u, outcome)
  \/ handleMyAgentsCommandSettled(u, outcome)
  \/ processAgentCreationGenerated(u, outcome)
  \/ processAgentCreationCreated(u, outcome)

\* C1: a handler run that has a credential-bearing remote call in flight got
\* isAuthenticated = true and hasValidToken = true from its own
\* checkUserAuthentication.
C1_CallGatedOnBothFlags ==
  \A u \in Users :
    tasks[u].pc \in RemoteCalls => tasks[u].isAuthenticated /\ tasks[u].hasValidToken

\* C2: a handler whose checkUserAuthentication finds the ghost state
\* (isAuthenticated = true, hasValidToken = false) leaves the stored
\* isAuthenticated false.
C2_GhostStateInvalidated ==
  [][\A u \in Users :
       (Ghost(checkUserAuthentication(db, u)) /\ ChecksAuthentication(u))
         => ~checkUserAuthentication(db', u).isAuthenticated]_vars

\* C3: after a POST /auth/callback with isAuthenticated = true, a provider id
\* and a non-empty credential has answered success, checkUserAuthentication
\* returns isAuthenticated = true, hasValidToken = true and the record's
\* privyUserId is the submitted one.
C3_LoginMakesUsable ==
  [][\A u \in Users, p \in PrivyIds, k \in SubmittedTokens \ {Absent}, iv \in 1..MaxIV :
       (authCallback(u, p, TRUE, k, iv) /\ res'.status = 200)
         => /\ checkUserAuthentication(db', u).isAuthenticated
            /\ checkUserAuthentication(db', u).hasValidToken
            /\ checkUserAuthentication(db', u).userData.privyUserId = p]_vars

\* C4: clearUserAuthData and both logout handlers leave the user with
\* isAuthenticated = false and hasValidToken = false, and the user stays so
\* through every step that is not a login transition for that user.
C4_ClearedUntilLogin ==
  [][\A u \in Users :
       /\ NotAuthenticated(db', u)
            \/ ~(db' = clearUserAuthData(db, u) \/ handleLogoutCommand(u) \/ handleLogoutUser(u))
       /\ (NotAuthenticated(db, u) /\ ~NotAuthenticated(db', u)) => LoginTransition(u)]_vars
C4_Witness ==
  \E u \in DOMAIN db :
    /\ sent = Msg(u, "logout_successful")
    /\ NotAuthenticated(db, u)
    /\ db[u].privyUserId # NoPrivyId

\* C5: when a credential-bearing remote call of a handler fails with 401,
\* that step clears the user's record and sends a re-authenticate prompt.
C5_UnauthorizedInvalidates ==
  [][\A u \in Users :
       RemoteCallSettled(u, "401")
         => /\ u \in DOMAIN db' => (~db'[u].isAuthenticated /\ db'[u].privyAccessToken = Absent)
            /\ sent'.kind \in ReauthPrompts]_vars

\* C6: a remote-call failure other than 401 leaves the record store as it was.
C6_OtherFailuresKeepRecord ==
  [][db' = db \/ \A u \in Users, o \in Failures \ {"401"} : ~RemoteCallSettled(u, o)]_vars
C6_Witness ==
  \E u \in DOMAIN db :
    /\ sent = Msg(u, "forbidden_403")
    /\ db[u].isAuthenticated
    /\ Stored(u) # Absent

\* C7: a credential held by a record is in the encrypted-token format, and
\* after a successful callback with a credential that is not in that format
\* the stored value differs from the submitted one.
C7_StoredEncrypted ==
  /\ \A u \in DOMAIN db : Stored(u) = Absent \/ isValidEncryptedToken(Stored(u))
  /\ (req.made /\ res.status = 200 /\ req.token # Absent /\ ~isValidEncryptedToken(req.token))
       => /\ Stored(req.user) # req.token
          /\ isValidEncryptedToken(Stored(req.user))
C7_Witness ==
  /\ req.made
  /\ res.status = 200
  /\ req.token \in RawTokens
  /\ isValidEncryptedToken(Stored(req.user))

\* C8: every stored credential decrypts with the process-wide key.
C8_StoredDecrypts ==
  \A u \in DOMAIN db : Stored(u) # Absent => decryptPrivyAccessToken(Stored(u)).ok

\* C9: a callback with a raw credential stores a token that decrypts to it,
\* and a callback that submits the token already stored leaves it stored
\* unchanged.
C9_NoDoubleEncryption ==
  (req.made /\ res.status = 200 /\ req.token # Absent)
    => /\ req.token \in RawTokens
            => decryptPrivyAccessToken(Stored(req.user)) = [ok |-> TRUE, text |-> req.token]
       /\ req.token = req.before => Stored(req.user) = req.before
C9_Witness ==
  /\ req.made
  /\ res.status = 200
  /\ req.token = req.before
  /\ Stored(req.user) = req.before
  /\ decryptPrivyAccessToken(Stored(req.user)).ok
  /\ decryptPrivyAccessToken(Stored(req.user)).text \in RawTokens

\* C10: without a record, or with a record whose isAuthenticated is false,
\* checkUserAuthentication returns the safe default, whatever the record holds.
C10_SafeDefaultWhenNotAuthenticated ==
  \A u \in Users :
    (u \notin DOMAIN db \/ ~db[u].isAuthenticated)
      => checkUserAuthentication(db, u) = SafeDefault
C10_Witness ==
  \E u \in DOMAIN db :
    /\ ~db[u].isAuthenticated
    /\ getUserAccessToken(db, u) # Absent
    /\ checkUserAuthentication(db, u) = SafeDefault


\* C11: for a record with isAuthenticated = true whose stored credential is
\* absent or fails decryption, checkUserAuthentication returns
\* isAuthenticated = true with hasValidToken = false and the record itself:
\* the decryption failure ends in a result, not in an error.
C11_GhostDetected ==
  \A u \in DOMAIN db :
    (db[u].isAuthenticated
       /\ (Stored(u) = Absent \/ ~decryptPrivyAccessToken(Stored(u)).ok))
    => LET authCheck == checkUserAuthentication(db, u)
       IN /\ authCheck.isAuthenticated
          /\ ~authCheck.hasValidToken
          /\ authCheck.found
          /\ authCheck.userData = db[u]
C11_Witness ==
  \E u \in DOMAIN db :
    /\ db[u].isAuthenticated
    /\ Stored(u) # Absent
    /\ ~decryptPrivyAccessToken(Stored(u)).ok

\* C12: while the store cannot be read, checkUserAuthentication returns the
\* safe default {isAuthenticated: false, hasValidToken: false, userData: null}
\* for every user, whatever the file holds; it has no other outcome.
C12_SafeDefaultOnReadError ==
  ~readable => \A u \in Users : checkUserAuthentication(db, u) = SafeDefault
C12_Witness ==
  /\ ~readable
  /\ \E u \in DOMAIN db :
       db[u].isAuthenticated /\ decryptPrivyAccessToken(Stored(u)).ok

\* C13: a POST /auth/callback that is answered with HTTP 400 (telegramUserId
\* missing, or the credential cannot be processed) leaves the store as it was
\* and hands no confirmation message to the transport.
C13_RejectedCallbackChangesNothing ==
  [][res'.status = 400 => (req'.made /\ db' = db /\ sent' = NoMsg)]_vars
C13_Witness ==
  /\ res = Res(400, "Failed to process access token")
  /\ req.user \in DOMAIN db
  /\ db[req.user].isAuthenticated

\* the steps in which updateUserAuthStatus(u, a, p, k) is called
Put(u, a, p, k) ==
  \/ \E iv \in Nonces(k) :
       /\ authCallback(u, p, a, k, iv)
       /\ res'.status = 200
  \/ a /\ k = Absent /\ handleLoginComplete(u, p)
  \/ a /\ k = Absent /\ p # NoPrivyId /\ handleWebAppData(u, "login_complete", p)

\* C14: updateUserAuthStatus keeps an existing record's privyUserId when no
\* privyUserId is supplied, keeps its stored credential when no credential is
\* supplied, and keeps its lastLogin unless it is called with
\* isAuthenticated = true.
C14_PutPreservesUnsuppliedFields ==
  [][\A u \in DOMAIN db, a \in BOOLEAN, p \in PrivyIds \cup {NoPrivyId},
        k \in SubmittedTokens :
       Put(u, a, p, k)
       => /\ p = NoPrivyId => db'[u].privyUserId = db[u].privyUserId
          /\ k = Absent => db'[u].privyAccessToken = db[u].privyAccessToken
          /\ ~a => db'[u].lastLogin = db[u].lastLogin]_vars

\* the steps of u's handlers that can call clearUserAuthData(u): logout, the
\* ghost-state branches and the 401 branches; none of them calls
\* updateUserAuthStatus
ClearStep(u) ==
  \/ ChecksAuthentication(u)
  \/ \E o \in Outcomes : RemoteCallSettled(u, o)

\* C15: a logout or invalidation of an existing record sets isAuthenticated
\* to false and removes the stored credential; privyUserId, lastLogin and the
\* set of records stay as they were.
C15_ClearKeepsOtherFields ==
  [][\A u \in DOMAIN db :
       (db' # db /\ ~req'.made /\ ClearStep(u))
       => /\ DOMAIN db' = DOMAIN db
          /\ ~db'[u].isAuthenticated
          /\ db'[u].privyAccessToken = Absent
          /\ db'[u].privyUserId = db[u].privyUserId
          /\ db'[u].lastLogin = db[u].lastLogin]_vars
C15_Witness ==
  \E u \in DOMAIN db :
    /\ sent = Msg(u, "reauth_401")
    /\ ~db[u].isAuthenticated
    /\ Stored(u) = Absent
    /\ db[u].privyUserId \in PrivyIds
    /\ db[u].lastLogin < now

C17_NoLostUpdate ==
  [][db' # db
       => \E u \in DOMAIN db' :
            /\ \A v \in DOMAIN db \ {u} : v \in DOMAIN db' /\ db'[v] = db[v]
            /\ DOMAIN db' = DOMAIN db \cup {u}
            /\ IF req'.made
               THEN /\ u = req'.user
                    /\ req'.token # Absent
                         => decryptPrivyAccessToken(db'[u].privyAccessToken).text = req'.token
                    /\ req'.token = Absent /\ u \in DOMAIN db
                         => db'[u].privyAccessToken = db[u].privyAccessToken
               ELSE \/ /\ u \in DOMAIN db
                       /\ db'[u] = [db[u] EXCEPT !.isAuthenticated = FALSE,
                                                 !.privyAccessToken = Absent]
                    \/ \E p \in PrivyIds : handleLoginComplete(u, p)]_vars
C17_Witness ==
  /\ DOMAIN db = Keys
  /\ sent = Msg("u1", "reauth_401")
  /\ ~db["u1"].isAuthenticated
  /\ db["u1"].privyUserId = "p2"
  /\ tasks["u2"].pc = "getUserAccount"
  /\ db["u2"].isAuthenticated
  /\ Stored("u2") # Absent

\* the messages that tell a user to authenticate again, sent after a 401 or
\* after a check that found isAuthenticated or hasValidToken false
ReauthMessages ==
  ReauthPrompts \cup {"status_token_expired", "create_token_expired",
                      "get_agent_token_expired", "no_valid_token",
                      "authentication_required"}

\* C18: a re-authentication message for user u is handed to the transport
\* only when u's record has been cleared: in the state the step leaves, u's
\* stored isAuthenticated is false.
C18_ClearedBeforePrompt ==
  (sent.kind \in ReauthMessages /\ sent.to \in DOMAIN db) => ~db[sent.to].isAuthenticated

\* C19: the drift evaluation of POST /auto-reset-webhook yields needsReset
\* exactly when the registered URL differs from the expected one, or a last
\* error date exists and lies less than 300 seconds before now, or more than
\* 10 updates are pending.
C19_NeedsResetExactly ==
  [][(hookTask.pc = "getWebHookInfo" /\ hookTask'.pc # "getWebHookInfo"
        /\ res'.status # 500)
       => hookTask'.needsReset
            = (\/ webhookInfo.url # hookTask.expectedUrl
               \/ (webhookInfo.last_error_date # 0
                     /\ now - webhookInfo.last_error_date < 300)
               \/ webhookInfo.pending_update_count > 10)]_vars
C19_Witness ==
  /\ hookTask.pc = "setWebHook"
  /\ hookTask.reason = "Recent errors detected"
  /\ webhookInfo.url = hookTask.expectedUrl
  /\ webhookInfo.pending_update_count = 10
  /\ now - webhookInfo.last_error_date = 299

\* C20: the handler issues setWebHook, for the expected URL and with
\* drop_pending_updates = true, exactly when the evaluation yields
\* needsReset = true, and answers reset = true once that call has succeeded;
\* with needsReset = false it issues no call, leaves the registration and
\* the pending updates alone and answers reset = false.
C20_ResetIffNeeded ==
  [][/\ (hookTask.pc = "getWebHookInfo" /\ hookTask'.pc # "getWebHookInfo"
          /\ res'.status # 500)
       => /\ botCall'.made = hookTask'.needsReset
          /\ botCall'.made
               => botCall' = [made |-> TRUE, url |-> hookTask.expectedUrl,
                              drop_pending_updates |-> TRUE]
          /\ ~hookTask'.needsReset
               => res' = Res(200, "reset_false") /\ webhookInfo' = webhookInfo
          /\ hookTask'.needsReset => res' = NoRes
     /\ res'.body = "reset_false" => ~hookTask'.needsReset /\ ~botCall'.made
     /\ res'.body = "reset_true"
       => /\ hookTask.pc = "setWebHook" /\ hookTask.needsReset
          /\ webhookInfo'.url = hookTask.expectedUrl
          /\ webhookInfo'.pending_update_count = 0
     /\ (hookTask.pc = "setWebHook" /\ hookTask'.pc = "idle" /\ res'.status = 200)
       => res'.body = "reset_true"]_vars
C20_Witness ==
  /\ res = Res(200, "reset_true")
  /\ hookTask.reason = "Too many pending updates"
  /\ webhookInfo.url = hookTask.expectedUrl
  /\ webhookInfo.pending_update_count = 0

\* C21: GET /health answers 'unhealthy' exactly when a last error date exists
\* and lies less than 300 seconds before now, 'healthy' otherwise, whatever
\* else the registration holds; it answers 'error' (status 500) exactly when
\* the registration could not be read.
C21_HealthStatus ==
  [][(healthTask.pc = "getWebHookInfo" /\ healthTask'.pc = "idle")
       => /\ res'.body \in {"healthy", "unhealthy", "error"}
          /\ (res'.body = "error") = (healthTask'.read = "failed")
          /\ (res'.body = "error") = (res'.status = 500)
          /\ healthTask'.read = "ok"
               => (res'.body = "unhealthy")
                    = (webhookInfo.last_error_date # 0
                         /\ now - webhookInfo.last_error_date < 300)]_vars
\* answered 'healthy' at the edge of the window, with a wrong URL and a backlog
C21_Witness ==
  /\ res = Res(200, "healthy")
  /\ healthTask.read = "ok"
  /\ now - webhookInfo.last_error_date = 300
  /\ webhookInfo.pending_update_count > 10
  /\ webhookInfo.url = NoUrl

\* C22: setupWebhookWithRetry makes at most 3 attempts, each started by one
\* deleteWebHook call; once an attempt has succeeded it does nothing more;
\* after failed attempt number `attempt` it waits attempt * 2 seconds and then
\* starts attempt + 1, except after the third, where it returns at once, with
\* no wait and nothing thrown.
C22_BoundedRetry ==
  [][/\ setupTask'.attempt \in 0..3
     /\ setupTask'.failed <= setupTask'.attempt
     /\ (setupTask'.call # "none" /\ setupTask'.pc # "pollingDelete")
          => setupTask'.attempt >= 1
     /\ setupTask'.attempt # setupTask.attempt
          => /\ setupTask'.attempt = setupTask.attempt + 1
             /\ setupTask'.failed = setupTask.attempt
             /\ setupTask'.call = "deleteWebHook"
             /\ setupTask.pc \in {"startupDelay", "backoff"}
     /\ setupTask.pc = "returned" => setupTask' = setupTask
     /\ setupTask'.result = "success"
          => setupTask'.pc = "returned" /\ setupTask'.failed = setupTask'.attempt - 1
     /\ setupTask'.failed # setupTask.failed
          => /\ setupTask'.failed = setupTask.failed + 1
             /\ ~escaped'
             /\ IF setupTask.attempt < 3
                THEN setupTask'.pc = "backoff" /\ setupTask'.wait = setupTask.attempt * 2
                ELSE /\ setupTask'.pc = "returned" /\ setupTask'.wait = 0
                     /\ setupTask'.result = "exhausted"
     /\ setupTask.pc = "backoff"
          => setupTask'.pc \in {"backoff", "deleteWebHook"}]_vars
\* the third attempt has failed after waits of 2 and 4 seconds
C22_Witness ==
  /\ setupTask.pc = "returned"
  /\ setupTask.result = "exhausted"
  /\ setupTask.attempt = 3
  /\ setupTask.failed = 3
  /\ setupTask.wait = 0

\* C23: once the setWebHook call of an attempt has succeeded, the outcome of
\* the verification read does not matter: the attempt is a success, the
\* function returns and no further deleteWebHook or setWebHook call follows.
C23_VerificationOnlyWarns ==
  [][(setupTask.pc = "getWebHookInfo" /\ setupTask'.pc # "getWebHookInfo")
       => /\ setupTask'.pc = "returned"
          /\ setupTask'.result = "success"
          /\ setupTask'.failed = setupTask.failed]_vars

\* C24: once SIGTERM has been received, no step of the setup issues a
\* deleteWebHook or setWebHook call.
C24_NoCallAfterSigterm ==
  [][(shutdown /\ setupTask' # setupTask)
       => setupTask'.call \notin {"deleteWebHook", "setWebHook"}]_vars

\* C28: POST /webhook answers 400 and hands nothing to the bot when the body
\* is missing or not an object; otherwise it hands the body to the bot
\* exactly once and answers 500 when that call throws, and 200 with
\* status 'ok' and the current time when it does not.
C28_WebhookResponses ==
  [][(handed'.body # "none" /\ res' # NoRes)
       => LET invalid == handed'.body \in {"undefined", "null", "emptyString",
                                            "string", "number"}
          IN /\ invalid => res'.status = 400 /\ handed'.calls = 0
             /\ ~invalid => handed'.calls = 1
             /\ (~invalid /\ handed'.threw) => res'.status = 500
             /\ (~invalid /\ ~handed'.threw)
                  => res' = [status |-> 200, body |-> "ok", timestamp |-> now]]_vars
C28_Witness ==
  /\ handed = [body |-> "array", calls |-> 1, threw |-> FALSE]
  /\ res.status = 200

\* C25: a run of the monitor whose health check was answered by the server
\* from a registration it could read does not end without asking for a reset while the registration has
\* drifted: the registered URL differs from the expected one, or an error
\* lies less than 300 seconds back, or more than 10 updates are pending.
C25_DriftTriggersReset ==
  [][(monitorTask.pc = "checkServerHealth" /\ monitorTask'.pc = "idle"
        /\ monitorTask'.status # "error")
       => ~(\/ webhookInfo.url # monitorTask.expectedUrl
            \/ (webhookInfo.last_error_date # 0
                  /\ now - webhookInfo.last_error_date < 300)
            \/ webhookInfo.pending_update_count > 10)]_vars

\* C26: once POST /auth/callback has got past its two 400 answers and made
\* the record update, it answers 200 'Authentication status updated',
\* whether or not a confirmation is sent and whether or not the transport
\* delivers it.
C26_ResponseIgnoresConfirmation ==
  [][(req'.made /\ res'.status # 400)
       => res' = Res(200, "Authentication status updated")]_vars
\* answered 200 although the confirmation could not be delivered
C26_Witness ==
  /\ req.made
  /\ res = Res(200, "Authentication status updated")
  /\ sent.kind = "authentication_successful"
  /\ ~transportUp
  /\ req.user \in DOMAIN db
  /\ db[req.user].isAuthenticated

\* C27: no handler leaves a rejection or an exception unhandled.
C27_NoErrorEscapes == ~escaped

\* C29 as stated: every string comes back from decrypt(encrypt(s)) unchanged.
C29_RoundTrip ==
  cipher.pc = "decrypted" => (cipher.ok /\ cipher.out = cipher.text)
\* C29, amended: every string without an unpaired surrogate, the empty one
\* included, comes back from decrypt(encrypt(s)) unchanged, whatever nonce
\* encrypt drew; an unpaired surrogate comes back as U+FFFD.
C29_RoundTripWellFormed ==
  cipher.pc = "decrypted"
    => /\ cipher.ok
       /\ cipher.text # LoneSurrogate => cipher.out = cipher.text
       /\ cipher.text = LoneSurrogate => cipher.out = ReplacementChar
\* a text with ':' in it has made the round trip under the last nonce
C29_Witness ==
  /\ cipher.pc = "decrypted"
  /\ cipher.text = MalformedToken
  /\ cipher.out = MalformedToken
  /\ cipher.data[1].v = 6 * MaxIV

\* the state of u in the authentication state machine, as the gate sees it
AuthState(file, u) ==
  LET authCheck == checkUserAuthentication(file, u)
  IN IF ~authCheck.isAuthenticated THEN "Unauthenticated"
     ELSE IF authCheck.hasValidToken THEN "Authenticated-Usable"
     ELSE "Authenticated-NoCredential"

\* C30: a step that changes a user's authentication state either takes an
\* unauthenticated user to an authenticated state by a login (the callback,
\* the login button or the web app's login_complete), or takes Authenticated-NoCredential to
\* Authenticated-Usable by a callback that delivers a credential, or ends in
\* Unauthenticated; no step takes Authenticated-Usable to
\* Authenticated-NoCredential.
C30_AuthTransitions ==
  [][db' # db
       => \A u \in Users :
            LET a == AuthState(db, u)
                b == AuthState(db', u)
            IN a # b
                 => \/ /\ a = "Unauthenticated"
                       /\ \/ req'.made /\ res'.status = 200
                          \/ sent'.kind \in {"login_successful", "authentication_successful"}
                    \/ /\ a = "Authenticated-NoCredential"
                       /\ b = "Authenticated-Usable"
                       /\ req'.made /\ req'.token # Absent /\ res'.status = 200
                    \/ b = "Unauthenticated"]_vars

\* C31: a remote call that settles with 401 while its user is logged in with
\* a usable credential changes the store only if the credential the call was
\* made with is still the one the record holds.
C31_StaleUnauthorizedKeepsLogin ==
  [][(db' # db /\ ~req'.made)
       => \A u \in Users :
            (Passes(checkUserAuthentication(db, u)) /\ RemoteCallSettled(u, "401"))
              => getUserAccessToken(db, u) = tasks[u].accessToken]_vars

\* C32: every record whose isAuthenticated is not true holds no credential.
C32_NoCredentialUnlessAuthenticated ==
  \A u \in DOMAIN db : ~db[u].isAuthenticated => db[u].privyAccessToken = Absent

\* C33: a login that supplies no credential (the login_complete_ button or
\* the web app's login_complete) never leaves a record in which a stored
\* credential is paired with a privyUserId other than the one the record
\* held when the step began.
C33_CredentialBelongsToIdentity ==
  [][(db' # db /\ ~req'.made
        /\ sent'.kind \in {"login_successful", "authentication_successful"})
       => \A u \in DOMAIN db :
            (db[u].privyUserId # NoPrivyId /\ db'[u].privyAccessToken # Absent)
              => db'[u].privyUserId = db[u].privyUserId]_vars

\* C34: a step that puts or clears the record of one user leaves every other
\* user's record in the store, unchanged, whether or not the file can be read.
C34_OtherRecordsKept ==
  [][db' # db
       => LET a == IF req'.made THEN req'.user ELSE sent'.to
          IN \A b \in DOMAIN db \ {a} : b \in DOMAIN db' /\ db'[b] = db[b]]_vars

\* C35: in every attempt of setupWebhookWithRetry, setWebHook is called only
\* from the 1 second pause, the pause starts only when the deleteWebHook
\* call of the same attempt has settled, and a deleteWebHook that settles,
\* resolved or rejected, starts the pause without counting a failure.
C35_SetAfterDeleteAndDelay ==
  [][/\ setupTask'.call = "setWebHook"
          => /\ setupTask.pc \in {"pause", "setWebHook"}
             /\ setupTask.deleted \in {"ok", "failed"}
             /\ setupTask'.attempt = setupTask.attempt
     /\ (setupTask.pc = "pause" /\ setupTask' # setupTask)
          => setupTask.wait = 1 /\ setupTask'.call = "setWebHook"
     /\ (setupTask'.pc = "pause" /\ setupTask.pc # "pause")
          => setupTask.pc = "deleteWebHook" /\ setupTask'.attempt = setupTask.attempt
     /\ (setupTask.pc = "deleteWebHook" /\ setupTask' # setupTask)
          => /\ setupTask'.pc = "pause"
             /\ setupTask'.wait = 1
             /\ setupTask'.failed = setupTask.failed
             /\ setupTask'.deleted \in {"ok", "failed"}]_vars
\* the set call of the second attempt goes out after its delete was rejected
C35_Witness ==
  /\ setupTask.pc = "setWebHook"
  /\ setupTask.call = "setWebHook"
  /\ setupTask.deleted = "failed"
  /\ setupTask.attempt = 2
  /\ setupTask.failed = 1

\* C36: with nobody else touching the registration, a setupWebhookWithRetry
\* whose last attempt deleted the webhook and then failed at setWebHook
\* returns with no webhook registered, also when the expected URL was
\* registered before it started.
C36_FailedSetupLeavesNoWebhook ==
  [][/\ (setupTask.pc = "deleteWebHook" /\ setupTask'.deleted = "ok")
          => webhookInfo'.url = NoUrl
     /\ (setupTask.pc = "setWebHook" /\ setupTask'.pc \in {"backoff", "returned"}
           /\ setupTask.deleted = "ok")
          => webhookInfo'.url = NoUrl]_vars
\* three attempts for the URL that was registered, and none is registered now
C36_Witness ==
  /\ setupTask.pc = "returned"
  /\ setupTask.result = "exhausted"
  /\ setupTask.expectedUrl = RegisteredUrl
  /\ setupTask.deleted = "ok"
  /\ setupTask.failed = 3
  /\ webhookInfo.url = NoUrl
\* C37: however setupWebhookWithRetry interleaves with POST /set-webhook and
\* POST /auto-reset-webhook requests, when the setup has ended with a
\* successful attempt and no request of the two routes is still running, the
\* registered URL is the expected URL
C37_SetupSucceededUrlRegistered ==
  (/\ setupTask.pc = "returned" /\ setupTask.result = "success"
   /\ hookTask.pc = "idle" /\ setHookTask.pc = "idle")
    => webhookInfo.url = setupTask.expectedUrl

\* the setup has succeeded and a /set-webhook request has just completed
C37_Witness ==
  /\ setupTask.pc = "returned" /\ setupTask.result = "success"
  /\ hookTask.pc = "idle" /\ setHookTask.pc = "idle"
  /\ hookTask.reason = "URL mismatch"
  /\ res = Res(200, "Webhook set")
  /\ webhookInfo.url = setupTask.expectedUrl

\* C38: when /auto-reset-webhook decides that a reset is needed, the reason
\* it gives names a drift condition that holds for the registration it read,
\* and of the conditions that hold it names the last one in the order URL
\* mismatch, recent errors, too many pending updates
C38_ReasonNamesLastDrift ==
  [][(hookTask.pc = "getWebHookInfo" /\ hookTask'.needsReset)
       => LET mismatch == webhookInfo.url # hookTask.expectedUrl
              errors == webhookInfo.last_error_date # 0
                          /\ now - webhookInfo.last_error_date < 300
              pending == webhookInfo.pending_update_count > 10
          IN /\ hookTask'.reason = "URL mismatch" <=> (mismatch /\ ~errors /\ ~pending)
             /\ hookTask'.reason = "Recent errors detected" <=> (errors /\ ~pending)
             /\ hookTask'.reason = "Too many pending updates" <=> pending]_vars

\* all three conditions hold at once and the last one is named
C38_Witness ==
  /\ hookTask.pc = "setWebHook" /\ hookTask.needsReset
  /\ hookTask.reason = "Too many pending updates"
  /\ webhookInfo.url # hookTask.expectedUrl
  /\ webhookInfo.last_error_date # 0 /\ now - webhookInfo.last_error_date < 300
  /\ webhookInfo.pending_update_count > 10

\* C39: a text message is processed as an agent prompt only while its
\* sender's state is 'awaiting_agent_prompt', and the state is cleared in the
\* same step, so a second message finds no state; the state is set only by a
\* handler run in which the sender passed the both-flags gate
C39_PromptOnlyWhenAwaited ==
  [][\A u \in Users :
       /\ (sent'.to = u
             /\ sent'.kind \in {"prompt_too_short", "authentication_required",
                                "creating_agent"})
            => (userStates[u] = AwaitingPrompt /\ userStates'[u] = NoState)
       /\ (userStates'[u] = AwaitingPrompt /\ userStates[u] # AwaitingPrompt)
            => (sent'.to = u /\ sent'.kind = "agent_prompt_request")
       /\ (sent'.to = u /\ sent'.kind = "agent_prompt_request")
            => Passes(checkUserAuthentication(db, u))]_vars

\* the first message is being processed, the state is gone, and the step
\* just taken sent nothing, as the handling of a second message does
C39_Witness ==
  \E u \in Users :
    /\ tasks[u].kind = "create_agent" /\ tasks[u].pc = "processing"
    /\ userStates[u] = NoState
    /\ sent = NoMsg

\* C40: after a prompt has been rejected as too short the user is still in
\* agent-creation mode, so that the next text message is taken as the
\* description
C40_TooShortKeepsAwaiting ==
  [][\A u \in Users :
       (sent'.to = u /\ sent'.kind = "prompt_too_short")
         => userStates'[u] = AwaitingPrompt]_vars

====
